---- MODULE Spec2Model ----
(***************************************************************************)
(* A model of the segment merge-and-refine engine of language-srs:         *)
(* build_srs.py, build_evangelion.py, build_charlottes_web.py and          *)
(* preview_segments.py.                                                    *)
(*                                                                         *)
(* Time is counted in centiseconds (1 s = 100), which is the hop of the    *)
(* energy frames (hop_length = int(0.010 * sr)); transcript timestamps are *)
(* whole seconds, i.e. multiples of 100.  A text is a sequence of          *)
(* characters, each character a one-token string (kana are written in      *)
(* romaji: "ha","i" is the two-character text of DROP_IF_ISOLATED).        *)
(***************************************************************************)
EXTENDS Integers, Sequences, FiniteSets, TLC

VARIABLES
    script,      \* which driver runs: its constants and its variant of each function
    cfg,         \* the module-level tuning constants of that driver
    pc,          \* position of main()
    segments,    \* merge_segments: the raw entries read so far (segments[0..i])
    current,     \* merge_segments: the open accumulator
    merged,      \* merge_segments: the list of finalized segments
    opened,      \* history: the index in segments of the entry that seeded current
    closed,      \* history: every accumulator closed so far (texts, seeding entry, fate)
    audio,       \* the decoded audio: runs of frames of one energy level
    global_rms_max,  \* adjust_endpoints_with_audio: the largest frame energy (None in build_srs)
    idx,         \* the loop index of adjust_endpoints_with_audio / split_audio_ffmpeg
    nominal,     \* history: the merged list as adjust_endpoints_with_audio received it
    ffmpeg,      \* history: the return code of every ffmpeg run
    output,      \* main: the manifest written to OUTPUT_JSON
    tool,        \* which annotation script runs
    apc,         \* position of the annotation script's main()
    run,         \* history: the number of the annotation run
    segments_json,  \* the file segments.json the annotation script reads
    data_json,   \* the file data.json it writes: whether it exists, and its list
    data_before, \* history: data.json as the run found it
    existing_data,  \* main: the saved records with a translation, by text
    results,     \* main: the records of this run
    ai,          \* main: the number of segments the loop has been through
    llm,         \* history: the segments sent to the LLM in this run
    parser,      \* which parse_transcript runs
    tpc,         \* position of the script that parses
    source,      \* history: the blocks the transcript was written from
    numbered,    \* history: whether its lines carry a line-number prefix
    lines,       \* the lines of the transcript file
    entries,     \* what parse_transcript returned
    chapters,    \* split_nier: the lines of every chapter file
    seconds,     \* the argument of seconds_to_ffmpeg_time, in thousandths
    ffmpeg_time  \* what it returned

mergeVars == <<segments, current, merged, opened, closed>>
audioVars == <<audio, global_rms_max, idx, nominal, ffmpeg, output>>
annVars == <<tool, apc, run, segments_json, data_json, data_before,
             existing_data, results, ai, llm>>
textVars == <<parser, tpc, source, numbered, lines, entries, chapters>>
fmtVars == <<seconds, ffmpeg_time>>
vars == <<script, cfg, pc, segments, current, merged, opened, closed,
          audio, global_rms_max, idx, nominal, ffmpeg, output,
          tool, apc, run, segments_json, data_json, data_before,
          existing_data, results, ai, llm,
          parser, tpc, source, numbered, lines, entries, chapters,
          seconds, ffmpeg_time>>

----------------------------------------------------------------------------
(* Bounds of the model *)

MaxEntries == 2      \* raw entries handed to merge_segments
MaxSegments == 2     \* merged segments handed to adjust_endpoints_with_audio
MaxAnnotated == 2    \* segments of a short segments.json
MaxFailures == 1     \* LLM calls of one run that come back without a translation
MaxBlocks == 2       \* timestamped blocks of a transcript

----------------------------------------------------------------------------
(* Tuning constants, per driver *)

Scripts == {"srs", "evangelion", "charlottes", "preview"}

MIN_SEGMENT_DURATION(s) == 300

MAX_GAP_TO_MERGE(s) == 150

MAX_MERGED_DURATION(s) ==
    CASE s = "srs" -> 1200
      [] s = "evangelion" -> 1200
      [] s = "charlottes" -> 1500
      [] s = "preview" -> 1000

\* preview_segments.py adds END_BUFFER to every finalized end
PREVIEW_END_BUFFER == 40

\* The constants are tunables: the merge gap is also run at 0.5 s.
MaxGapChoices == {50, 150}

\* Audio endpoint detection settings; SILENCE_THRESHOLD in hundredths.
\* preview_segments.py has none: it never reads the audio.
EndpointSettings(s) ==
    CASE s = "srs" ->
           [MIN_EXTENSION |-> 50, SEARCH_WINDOW |-> 250, SILENCE_THRESHOLD |-> 15,
            MIN_SILENCE_DURATION |-> 15, FALLBACK_BUFFER |-> 80, END_BUFFER |-> 3,
            START_BUFFER |-> 0, START_SEARCH_WINDOW |-> 0]
      [] s = "evangelion" ->
           [MIN_EXTENSION |-> 70, SEARCH_WINDOW |-> 200, SILENCE_THRESHOLD |-> 15,
            MIN_SILENCE_DURATION |-> 15, FALLBACK_BUFFER |-> 90, END_BUFFER |-> 35,
            START_BUFFER |-> 10, START_SEARCH_WINDOW |-> 100]
      [] s = "charlottes" ->
           [MIN_EXTENSION |-> 50, SEARCH_WINDOW |-> 200, SILENCE_THRESHOLD |-> 10,
            MIN_SILENCE_DURATION |-> 15, FALLBACK_BUFFER |-> 70, END_BUFFER |-> 20,
            START_BUFFER |-> 10, START_SEARCH_WINDOW |-> 100]
      [] s = "preview" ->
           [MIN_EXTENSION |-> 0, SEARCH_WINDOW |-> 0, SILENCE_THRESHOLD |-> 0,
            MIN_SILENCE_DURATION |-> 0, FALLBACK_BUFFER |-> 0, END_BUFFER |-> 0,
            START_BUFFER |-> 0, START_SEARCH_WINDOW |-> 0]

Config(s, maxgap) ==
    LET e == EndpointSettings(s) IN
    [MIN_SEGMENT_DURATION |-> MIN_SEGMENT_DURATION(s),
     MAX_GAP_TO_MERGE     |-> maxgap,
     MAX_MERGED_DURATION  |-> MAX_MERGED_DURATION(s),
     MIN_EXTENSION        |-> e.MIN_EXTENSION,
     SEARCH_WINDOW        |-> e.SEARCH_WINDOW,
     SILENCE_THRESHOLD    |-> e.SILENCE_THRESHOLD,
     MIN_SILENCE_DURATION |-> e.MIN_SILENCE_DURATION,
     FALLBACK_BUFFER      |-> e.FALLBACK_BUFFER,
     END_BUFFER           |-> e.END_BUFFER,
     START_BUFFER         |-> e.START_BUFFER,
     START_SEARCH_WINDOW  |-> e.START_SEARCH_WINDOW]

----------------------------------------------------------------------------
(* Texts *)

Konnichiwa == <<"ko", "n", "ni", "chi", "ha">>
Hai        == <<"ha", "i">>
Souka      == <<"so", "u", "ka">>
Rei        == <<"re", "i">>

DROP_IF_ISOLATED == {<<"ha", "i">>, <<"so", "u">>, <<"so", "u", "ne">>}

VOCATIVES ==
    {<<"i", "ka", "ri", "shi", "n", "ji", "kun">>, <<"shi", "n", "ji", "kun">>,
     <<"re", "i">>, <<"fuyu", "tsuki">>, <<"fuku", "shi", "rei">>}

Whitespace == {" ", "\t"}

RECURSIVE lstrip(_)
lstrip(t) == IF t # <<>> /\ Head(t) \in Whitespace THEN lstrip(Tail(t)) ELSE t

RECURSIVE rstrip(_)
rstrip(t) ==
    IF t # <<>> /\ t[Len(t)] \in Whitespace THEN rstrip(SubSeq(t, 1, Len(t) - 1)) ELSE t

\* str.strip()
strip(t) == lstrip(rstrip(t))

\* str.endswith(c) for a one-character c
endswith(t, c) == t # <<>> /\ t[Len(t)] = c

SEPARATOR == <<" ", "/", " ">>

\* ' / '.join(texts)
RECURSIVE join(_)
join(texts) ==
    IF texts = <<>> THEN <<>>
    ELSE IF Len(texts) = 1 THEN texts[1]
    ELSE texts[1] \o SEPARATOR \o join(Tail(texts))

----------------------------------------------------------------------------
(* merge_segments *)

NoCurrent == [start_sec |-> -1, end_sec |-> -1, texts |-> <<>>]

new_accumulator(seg) ==
    [start_sec |-> seg.start_sec, end_sec |-> seg.end_sec, texts |-> <<seg.text>>]

finalize_segment(s, cur) ==
    IF s = "preview"
    THEN [start_sec |-> cur.start_sec, end_sec |-> cur.end_sec + PREVIEW_END_BUFFER,
          text |-> join(cur.texts), original_count |-> Len(cur.texts)]
    ELSE [start_sec |-> cur.start_sec, end_sec |-> cur.end_sec, text |-> join(cur.texts)]

current_duration(cur) == cur.end_sec - cur.start_sec

gap_to(cur, seg) == seg.start_sec - cur.end_sec

potential_duration(cur, seg) == seg.end_sec - cur.start_sec

\* the extension rule for very short accumulators (build_srs, build_charlottes_web)
extension_rule(s, cur, seg) ==
    /\ s \in {"srs", "charlottes"}
    /\ gap_to(cur, seg) <= 300
    /\ current_duration(cur) < 100

\* the content rules of build_srs: question endings and vocatives
content_rule(s, cur, seg) ==
    LET current_text == IF cur.texts # <<>> THEN strip(cur.texts[Len(cur.texts)]) ELSE <<>>
    IN /\ s = "srs"
       /\ gap_to(cur, seg) <= 200
       /\ \/ endswith(current_text, "?")
          \/ endswith(current_text, "ka")
          \/ current_text \in VOCATIVES

\* the decision with the fixed 0.5 s gap in the short-accumulator rule, in
\* place of MAX_GAP_TO_MERGE
should_merge_fixed_gap(s, c, cur, seg) ==
    \/ IF current_duration(cur) < c.MIN_SEGMENT_DURATION
       THEN \/ gap_to(cur, seg) <= 50
            \/ extension_rule(s, cur, seg)
       ELSE /\ gap_to(cur, seg) <= 50
            /\ potential_duration(cur, seg) <= c.MAX_MERGED_DURATION
    \/ content_rule(s, cur, seg)

\* the decision without the "elif gap <= 0.5" rule of accumulators that have
\* reached MIN_SEGMENT_DURATION
should_merge_short_only(s, c, cur, seg) ==
    \/ /\ current_duration(cur) < c.MIN_SEGMENT_DURATION
       /\ \/ gap_to(cur, seg) <= c.MAX_GAP_TO_MERGE
          \/ extension_rule(s, cur, seg)
    \/ content_rule(s, cur, seg)

should_merge(s, c, cur, seg) ==
    \/ IF current_duration(cur) < c.MIN_SEGMENT_DURATION
       THEN \/ gap_to(cur, seg) <= c.MAX_GAP_TO_MERGE
            \/ extension_rule(s, cur, seg)
       ELSE /\ gap_to(cur, seg) <= 50
            /\ potential_duration(cur, seg) <= c.MAX_MERGED_DURATION
    \/ content_rule(s, cur, seg)

\* the duration cap applied to an accepted merge (absent in preview_segments)
within_cap(s, c, cur, seg) ==
    s = "preview" \/ potential_duration(cur, seg) <= c.MAX_MERGED_DURATION

\* build_srs: a one-entry accumulator of a filler text shorter than 1 s
is_isolated_filler(s, cur) ==
    /\ s = "srs"
    /\ Len(cur.texts) = 1
    /\ strip(cur.texts[1]) \in DROP_IF_ISOLATED
    /\ current_duration(cur) < 100

\* what one iteration of the loop does with the open accumulator:
\* "merge" the entry into it, "drop" it, or "finalize" it
step_kind(s, c, cur, seg) ==
    IF should_merge(s, c, cur, seg)
    THEN (IF within_cap(s, c, cur, seg) THEN "merge" ELSE "finalize")
    ELSE (IF is_isolated_filler(s, cur) THEN "drop" ELSE "finalize")

\* what the code after the loop does with the last accumulator
last_kind(s, cur) == IF is_isolated_filler(s, cur) THEN "drop" ELSE "finalize"

\* a merge that extends the end and does not append the entry's text
absorb_losing_text(cur, seg) == [cur EXCEPT !.end_sec = seg.end_sec]

absorb(cur, seg) ==
    [cur EXCEPT !.end_sec = seg.end_sec, !.texts = Append(cur.texts, seg.text)]

----------------------------------------------------------------------------
(* The audio and its short-time energy                                      *)
(*                                                                          *)
(* The sample rate is 100 Hz, so that a sample is a centisecond and         *)
(* hop_length = int(0.010 * sr) = 1.  The audio is a sequence of runs, each *)
(* run a stretch of samples of one energy level, up to (excluding) "upto".  *)
(* librosa.feature.rms (center=True) returns 1 + len // hop_length frames;  *)
(* frame i has the energy of the sample it is centred on, the last frame    *)
(* that of the last sample of the window.                                   *)

None == -1

hop_length == 1

Max(S) == CHOOSE x \in S : \A y \in S : y <= x

Min(S) == CHOOSE x \in S : \A y \in S : x <= y

\* len(audio)
audio_len(a) == IF a = <<>> THEN 0 ELSE a[Len(a)].upto

\* the energy of sample t, 0 <= t < len(audio)
Energy(a, t) ==
    LET k == CHOOSE k \in 1..Len(a) : t < a[k].upto /\ (k = 1 \/ a[k - 1].upto <= t)
    IN a[k].level

\* librosa.feature.rms(y=audio[start_sample:end_sample], ...)[0], indexed from 0
rms_frames(a, start_sample, end_sample) ==
    LET n == end_sample - start_sample IN
    [i \in 0..(n \div hop_length) |->
        Energy(a, start_sample + Min({i * hop_length, n - 1}))]

\* librosa.feature.rms(y=audio, ...)[0].max()
rms_max_of_audio(a) ==
    IF audio_len(a) = 0 THEN 0
    ELSE Max({a[k].level : k \in {j \in 1..Len(a) : (IF j = 1 THEN 0 ELSE a[j - 1].upto) < a[j].upto}})

\* rms.max()
rms_max(rms) == Max({rms[i] : i \in DOMAIN rms})

\* no normalisation: the threshold compared with the energy itself (levels
\* are in hundredths of full scale)
normalizer_absolute(s, rms, gmax) == IF rms_max(rms) > 0 THEN 100 ELSE 0

\* the divisor of "rms_norm = rms / ...": the global maximum when it is given
\* and positive, else the maximum of the window; 0 when the code returns the
\* fallback because there is no energy.  build_srs always divides by rms.max().
normalizer(s, rms, gmax) ==
    IF s # "srs" /\ gmax # None /\ gmax > 0 THEN gmax
    ELSE IF rms_max(rms) > 0 THEN rms_max(rms)
    ELSE 0

\* rms_norm[i] < SILENCE_THRESHOLD, with rms_norm[i] = e / d
below_threshold(c, e, d) == e * 100 < c.SILENCE_THRESHOLD * d

\* int(MIN_SILENCE_DURATION * sr / hop_length)
min_silence_frames(c) == c.MIN_SILENCE_DURATION \div hop_length

\* np.all(rms_norm[i:i+min_silence_frames] < SILENCE_THRESHOLD)
all_below(c, rms, d, i, j) == \A k \in i..(j - 1) : below_threshold(c, rms[k], d)

\* the frame indices the forward loop accepts:
\* "for i in range(len(rms_norm) - min_silence_frames)"
forward_hits(c, rms, d) ==
    LET n == Cardinality(DOMAIN rms) IN
    {i \in 0..(n - min_silence_frames(c) - 1) :
        all_below(c, rms, d, i, i + min_silence_frames(c))}

\* the frame indices the backward loop accepts:
\* "for i in range(len(rms_norm) - 1, min_silence_frames - 1, -1)"
backward_hits(c, rms, d) ==
    LET n == Cardinality(DOMAIN rms) IN
    {i \in min_silence_frames(c)..(n - 1) :
        /\ ~below_threshold(c, rms[i], d)
        /\ all_below(c, rms, d, i - min_silence_frames(c), i)}

\* find_silence_after: the refined end of a segment whose transcript end is
\* start_time.  Returns [path, value]; the code returns value.
silence_after(s, c, a, start_time, max_search_time, next_start_time, gmax) ==
    LET search_start_time == IF s = "srs" THEN start_time + c.MIN_EXTENSION ELSE start_time
        start_sample == search_start_time
        end_window == search_start_time + max_search_time
        end_next == IF next_start_time # None
                    THEN Min({end_window, next_start_time - 5}) ELSE end_window
        end_sample == Min({end_next, audio_len(a)})
        fallback_end == IF s # "srs" /\ next_start_time # None
                        THEN next_start_time - 5
                        ELSE start_time + c.FALLBACK_BUFFER
    IN IF start_sample >= end_sample
       THEN [path |-> "empty", value |-> fallback_end]
       ELSE IF end_sample - start_sample < c.MIN_SILENCE_DURATION
       THEN [path |-> "short", value |-> fallback_end]
       ELSE LET rms == rms_frames(a, start_sample, end_sample)
                d == normalizer(s, rms, gmax)
            IN IF d = 0
               THEN [path |-> "zero", value |-> fallback_end]
               ELSE LET hits == forward_hits(c, rms, d) IN
                    IF hits = {}
                    THEN [path |-> "none", value |-> fallback_end]
                    ELSE LET result == search_start_time + Min(hits) * hop_length
                                           + c.END_BUFFER
                         IN [path |-> "found",
                             value |-> IF s = "srs" THEN result
                                       ELSE Max({result, start_time + c.MIN_EXTENSION})]

find_silence_after(s, c, a, start_time, max_search_time, next_start_time, gmax) ==
    silence_after(s, c, a, start_time, max_search_time, next_start_time, gmax).value

\* find_silence_before: the refined start of a segment whose transcript start
\* is start_time.  Returns [path, value]; the code returns value.
silence_before(c, a, start_time, prev_end_time, gmax) ==
    LET earliest_time == IF prev_end_time # None THEN prev_end_time + 5 ELSE 0
        search_start == Max({earliest_time, start_time - c.START_SEARCH_WINDOW})
        start_sample == search_start
        end_sample == start_time
        \* len(audio[start_sample:end_sample]): a slice stops at len(audio)
        n == Max({0, Min({end_sample, audio_len(a)}) - Min({start_sample, audio_len(a)})})
    IN IF start_sample >= end_sample \/ start_sample < 0
       THEN [path |-> "empty", value |-> start_time]
       ELSE IF n < c.MIN_SILENCE_DURATION
       THEN [path |-> "short", value |-> start_time]
       ELSE LET rms == rms_frames(a, start_sample, start_sample + n)
                d == normalizer("evangelion", rms, gmax)
            IN IF d = 0
               THEN [path |-> "zero", value |-> start_time]
               ELSE LET hits == backward_hits(c, rms, d) IN
                    IF hits = {}
                    THEN [path |-> "none", value |-> Max({earliest_time, start_time - 15})]
                    ELSE [path |-> "found",
                          value |-> Max({earliest_time,
                                         search_start + Max(hits) * hop_length
                                             - c.START_BUFFER})]

find_silence_before(c, a, start_time, prev_end_time, gmax) ==
    silence_before(c, a, start_time, prev_end_time, gmax).value

\* the floor of the backward search read from the list as it was received:
\* the predecessor's transcript end
prev_end_nominal(segs, nom, k) == IF k > 1 THEN nom[k - 1].end_sec ELSE None

\* "prev_end = segments[i - 1]['end_sec']": the list is refined in place, so
\* this is the end the previous iteration has written
prev_end(segs, nom, k) == IF k > 1 THEN segs[k - 1].end_sec ELSE None

\* "next_start = segments[i + 1]['start_sec']"
next_start(segs, k) == IF k < Len(segs) THEN segs[k + 1].start_sec ELSE None

\* one iteration of the loop of adjust_endpoints_with_audio, on segment k
\* (build_srs refines the end only); nom is the list as it was received
adjust_step(s, c, a, gmax, segs, nom, k) ==
    LET new_start == IF s = "srs" THEN segs[k].start_sec
                     ELSE find_silence_before(c, a, segs[k].start_sec,
                                              prev_end(segs, nom, k), gmax)
        new_end == find_silence_after(s, c, a, segs[k].end_sec, c.SEARCH_WINDOW,
                                      next_start(segs, k), gmax)
    IN [segs EXCEPT ![k].start_sec = new_start, ![k].end_sec = new_end]

\* the whole loop, from segment k on
RECURSIVE adjust_from(_, _, _, _, _, _, _)
adjust_from(s, c, a, gmax, segs, nom, k) ==
    IF k > Len(segs) THEN segs
    ELSE adjust_from(s, c, a, gmax, adjust_step(s, c, a, gmax, segs, nom, k), nom, k + 1)

\* global_rms_max as adjust_endpoints_with_audio computes it (build_srs: not at all)
global_max_for(s, a) == IF s = "srs" THEN None ELSE rms_max_of_audio(a)

\* adjust_endpoints_with_audio(segments, audio, sr)
adjust_endpoints_with_audio(s, c, segs, a) ==
    adjust_from(s, c, a, global_max_for(s, a), segs, segs, 1)

----------------------------------------------------------------------------
(* Times as text, clip names and the manifest *)

Digit == <<"0", "1", "2", "3", "4", "5", "6", "7", "8", "9">>

\* str(n) for n >= 0
RECURSIVE decimal(_)
decimal(n) == IF n < 10 THEN <<Digit[n + 1]>> ELSE decimal(n \div 10) \o <<Digit[(n % 10) + 1]>>

\* f"{n:0{width}d}"
RECURSIVE zero_pad(_, _)
zero_pad(t, width) == IF Len(t) >= width THEN t ELSE zero_pad(<<"0">> \o t, width)

\* int(text) for a text of digits
RECURSIVE int_of(_)
int_of(t) ==
    IF t = <<>> THEN 0
    ELSE 10 * int_of(SubSeq(t, 1, Len(t) - 1))
         + (CHOOSE n \in 0..9 : Digit[n + 1] = t[Len(t)])

\* str.split(sep)
RECURSIVE split(_, _)
split(t, sep) ==
    IF \A k \in 1..Len(t) : t[k] # sep THEN <<t>>
    ELSE LET k == CHOOSE k \in 1..Len(t) : t[k] = sep /\ \A j \in 1..(k - 1) : t[j] # sep
         IN <<SubSeq(t, 1, k - 1)>> \o split(SubSeq(t, k + 1, Len(t)), sep)

\* int(seconds) of a non-negative time, as a time
int_seconds(t) == (t \div 100) * 100

\* MM:SS with the seconds rounded to the nearest, not truncated
seconds_to_time_rounding(t) ==
    LET whole == (t + 50) \div 100 IN
    zero_pad(decimal(whole \div 60), 2) \o <<":">> \o zero_pad(decimal(whole % 60), 2)

\* seconds_to_time: MM:SS of int(seconds)
seconds_to_time(t) ==
    LET whole == t \div 100 IN
    zero_pad(decimal(whole \div 60), 2) \o <<":">> \o zero_pad(decimal(whole % 60), 2)

\* time_to_seconds of build_evangelion (MM:SS or H:MM:SS), as a time
time_to_seconds(t) ==
    LET parts == split(t, ":") IN
    IF Len(parts) = 2 THEN 100 * (int_of(parts[1]) * 60 + int_of(parts[2]))
    ELSE IF Len(parts) = 3
    THEN 100 * (int_of(parts[1]) * 3600 + int_of(parts[2]) * 60 + int_of(parts[3]))
    ELSE 0

\* f"clip_{idx:03d}.mp3" (.m4a in build_srs), idx counted from 0
clip_filename(s, i) ==
    <<"c", "l", "i", "p", "_">> \o zero_pad(decimal(i), 3)
        \o (IF s = "srs" THEN <<".", "m", "4", "a">> ELSE <<".", "m", "p", "3">>)

\* seg['audio_file'] = clip_filename
with_audio_file(seg, name) ==
    [start_sec |-> seg.start_sec, end_sec |-> seg.end_sec, text |-> seg.text,
     audio_file |-> name]

\* one object of the manifest
manifest_entry(seg) ==
    [start |-> seconds_to_time(seg.start_sec),
     end |-> seconds_to_time(int_seconds(seg.end_sec)),
     text |-> seg.text,
     audio_file |-> seg.audio_file]

----------------------------------------------------------------------------
(* The raw entries: whole seconds, in the order of the transcript's lines.   *)
(* parse_transcript neither sorts the entries nor compares their times, so  *)
(* an entry may overlap the one before it or start before it.               *)

FirstStarts == {1000}

Durations == {0, 100, 200, 500, 1400}

Gaps == {-200, 0, 100, 200, 300, 400}

Texts(s) == IF s = "srs" THEN {Konnichiwa, Hai, Souka, Rei} ELSE {Konnichiwa, Hai}

entry(start, dur, text) == [start_sec |-> start, end_sec |-> start + dur, text |-> text]

FirstEntries(s) ==
    {entry(b, d, t) : b \in FirstStarts, d \in Durations, t \in Texts(s)}

NextEntries(s, prev) ==
    {entry(prev.end_sec + g, d, t) : g \in Gaps, d \in Durations, t \in Texts(s)}

----------------------------------------------------------------------------
(* The state machine: merge_segments *)

\* merged.insert(0, ...): the finalized segment put at the front of the list
emit_front(m, s, cur) == <<finalize_segment(s, cur)>> \o m

\* merged.append(finalize_segment(current))
emit(m, s, cur) == Append(m, finalize_segment(s, cur))

close(cur, first, fate) == [texts |-> cur.texts, first |-> first, fate |-> fate]

InitMerge ==
    /\ script \in Scripts
    /\ \E g \in MaxGapChoices : cfg = Config(script, g)
    /\ pc = "merge"
    /\ segments = <<>>
    /\ current = NoCurrent
    /\ merged = <<>>
    /\ opened = 0
    /\ closed = <<>>

\* merge_segments([]) returns []
MergeEmpty ==
    /\ pc = "merge"
    /\ segments = <<>>
    /\ pc' = "merged"
    /\ UNCHANGED <<script, cfg, segments, current, merged, opened, closed>>

\* the accumulator is seeded with segments[0]
MergeFirst ==
    /\ pc = "merge"
    /\ segments = <<>>
    /\ \E seg \in FirstEntries(script) :
         /\ segments' = <<seg>>
         /\ current' = new_accumulator(seg)
    /\ opened' = 1
    /\ UNCHANGED <<script, cfg, pc, merged, closed>>

\* one iteration of "for i in range(1, len(segments))"
MergeStep ==
    /\ pc = "merge"
    /\ segments # <<>>
    /\ Len(segments) < MaxEntries
    /\ \E seg \in NextEntries(script, segments[Len(segments)]) :
         LET kind == step_kind(script, cfg, current, seg) IN
         /\ segments' = Append(segments, seg)
         /\ current' = IF kind = "merge" THEN absorb(current, seg) ELSE new_accumulator(seg)
         /\ merged' = IF kind = "finalize" THEN emit(merged, script, current) ELSE merged
         /\ opened' = IF kind = "merge" THEN opened ELSE Len(segments) + 1
         /\ closed' = IF kind = "merge" THEN closed
                      ELSE Append(closed, close(current, opened, kind))
    /\ UNCHANGED <<script, cfg, pc>>

\* the code after the loop: the last accumulator
MergeLast ==
    /\ pc = "merge"
    /\ segments # <<>>
    /\ LET kind == last_kind(script, current) IN
         /\ merged' = IF kind = "finalize" THEN emit(merged, script, current) ELSE merged
         /\ closed' = Append(closed, close(current, opened, kind))
    /\ pc' = "merged"
    /\ UNCHANGED <<script, cfg, segments, current, opened>>

----------------------------------------------------------------------------
(* The merged segments and the audio handed to adjust_endpoints_with_audio *)

AudioScripts == {"srs", "evangelion", "charlottes"}

SegmentDurations == {0, 200, 1300}

SegmentGaps == {0, 100, 200}

TextAt(k) == <<Konnichiwa, Hai, Souka, Rei>>[((k - 1) % 4) + 1]

\* merge_segments returns the list l for the raw entries l: no two neighbours
\* merge and none is dropped
merges_to_itself(s, c, l) ==
    /\ \A k \in 1..(Len(l) - 1) :
         step_kind(s, c, new_accumulator(l[k]), l[k + 1]) = "finalize"
    /\ last_kind(s, new_accumulator(l[Len(l)])) = "finalize"

RECURSIVE EntryLists(_)
EntryLists(n) ==
    IF n = 1 THEN {<<entry(b, d, TextAt(1))>> : b \in FirstStarts, d \in SegmentDurations}
    ELSE {Append(l, entry(l[n - 1].end_sec + g, d, TextAt(n))) :
            l \in EntryLists(n - 1), g \in SegmentGaps, d \in SegmentDurations}

NominalLists(s, c) ==
    {l \in UNION {EntryLists(n) : n \in 1..MaxSegments} : merges_to_itself(s, c, l)}

\* The audio of a list of segments: speech of level "speech" from "lead"
\* before each transcript start to "trail" after each transcript end, level
\* "background" elsewhere, ending "tail" after the last transcript end.
RECURSIVE sorted(_)
sorted(S) == IF S = {} THEN <<>> ELSE <<Min(S)>> \o sorted(S \ {Min(S)})

audio_of(l, speech, background, lead, trail, tail) ==
    LET total == l[Len(l)].end_sec + tail
        in_speech(t) == \E k \in 1..Len(l) :
                            l[k].start_sec - lead <= t /\ t < l[k].end_sec + trail
        cuts == sorted({t \in {l[k].start_sec - lead : k \in 1..Len(l)}
                              \cup {l[k].end_sec + trail : k \in 1..Len(l)} :
                         0 < t /\ t < total} \cup {total})
    IN [k \in 1..Len(cuts) |->
          [upto |-> cuts[k],
           level |-> IF in_speech(IF k = 1 THEN 0 ELSE cuts[k - 1])
                     THEN speech ELSE background]]

SpeechLevels == {100}

BackgroundLevels == {5, 20}

Leads == {0, 30}

Trails == {0, 70}

LongTails == {300}

ShortTails == {10}

\* an audio that stops while the speaker trails off: the quiet stretch at its
\* end is one sample short of MIN_SILENCE_DURATION
CutTrails == {70}

CutTails == {84}

\* speech over every background, lead and trail; an audio that stops right
\* after the last segment; an audio of zeros
Audios(l) ==
    {audio_of(l, v, b, lead, trail, tail) :
        v \in SpeechLevels, b \in BackgroundLevels, lead \in Leads,
        trail \in Trails, tail \in LongTails}
    \cup {audio_of(l, v, 0, 0, 0, tail) : v \in SpeechLevels, tail \in ShortTails}
    \cup {audio_of(l, v, b, 0, trail, tail) :
            v \in SpeechLevels, b \in BackgroundLevels, trail \in CutTrails,
            tail \in CutTails}
    \cup {audio_of(l, 0, 0, 0, 0, tail) : tail \in LongTails}

----------------------------------------------------------------------------
(* Transcripts: parse_transcript of build_srs.py, build_evangelion.py and   *)
(* split_nier.py, and split_transcript of split_nier.py.                    *)
(*                                                                          *)
(* A file is the list of its lines, a line a sequence of characters; the    *)
(* token "->" is the arrow character of a line-number prefix.  Leading and  *)
(* trailing blank lines, which content.strip() removes, are not written.    *)

Parsers == {"srs", "evangelion", "nier"}

Arrow == "->"

\* "if '→' in line: line = line.split('→', 1)[1]", which build_evangelion
\* and split_nier do not have
remove_prefix(p, line) ==
    IF p = "srs" /\ \E k \in 1..Len(line) : line[k] = Arrow
    THEN LET k == CHOOSE k \in 1..Len(line) :
                      line[k] = Arrow /\ \A j \in 1..(k - 1) : line[j] # Arrow
         IN SubSeq(line, k + 1, Len(line))
    ELSE line

\* the line as the patterns see it: lines[i].strip(), then the prefix removed
clean(p, line) == remove_prefix(p, strip(line))

IsDigit(ch) == \E n \in 1..10 : Digit[n] = ch

\* \d+
AllDigits(t) == t # <<>> /\ \A k \in 1..Len(t) : IsDigit(t[k])

\* \d{2}:\d{2} in build_srs, \d+:\d+(?::\d+)? in build_evangelion and split_nier
time_pattern(p, t) ==
    LET parts == split(t, ":") IN
    IF p = "srs"
    THEN Len(parts) = 2 /\ \A k \in 1..2 : AllDigits(parts[k]) /\ Len(parts[k]) = 2
    ELSE Len(parts) \in {2, 3} /\ \A k \in 1..Len(parts) : AllDigits(parts[k])

\* re.match(r'^(time)-(time)$', line)
timestamp_match(p, line) ==
    LET groups == split(line, "-") IN
    Len(groups) = 2 /\ time_pattern(p, groups[1]) /\ time_pattern(p, groups[2])

\* time_to_seconds of build_srs: minutes and seconds, as a time
time_to_seconds_srs(t) ==
    LET parts == split(t, ":") IN 100 * (int_of(parts[1]) * 60 + int_of(parts[2]))

\* the conversion the parser applies to a group of the pattern
group_seconds(p, t) == IF p = "srs" THEN time_to_seconds_srs(t) ELSE time_to_seconds(t)

EXCLUDE_RANGES == <<<<0, 11200>>, <<134400, 140000>>>>

\* is_excluded(start_sec) of build_srs
is_excluded(start_sec) ==
    \E r \in 1..Len(EXCLUDE_RANGES) :
        EXCLUDE_RANGES[r][1] <= start_sec /\ start_sec <= EXCLUDE_RANGES[r][2]

SKIP_BEFORE_SECONDS == 9000

DROP_TEXTS(p) ==
    CASE p = "srs" ->
           {<<"moku", "hyou", "ni", "zen", "dan", "mei", "chuu", "!">>,
            <<"se", "~", "no", "!">>, <<"ha", "a">>, <<"ji", "ya">>,
            <<"tou", "sa", "n">>, <<"tano", "mu">>}
      [] p = "evangelion" -> {<<"u", "n">>, <<"a", "a">>, <<"ha", "a">>, <<"e", "tsu">>}
      [] p = "nier" -> {}

\* should_drop(text)
should_drop(p, text) == strip(text) \in DROP_TEXTS(p)

\* c.isascii() and c.isalpha(): the Latin letters of the alphabet of the model
AsciiLetters == {"O", "K"}

\* the characters that are neither letters nor kana
NotLetters == {" ", "\t", ":", "-", ".", "!", "~", Arrow} \cup {Digit[n] : n \in 1..10}

\* is_english(text): more than half of the letters are ASCII
is_english(text) ==
    LET ascii_letters == Cardinality({k \in 1..Len(text) : text[k] \in AsciiLetters})
        total_letters == Cardinality({k \in 1..Len(text) : text[k] \notin NotLetters})
    IN total_letters # 0 /\ 2 * ascii_letters > total_letters

\* the condition under which the entry is appended
is_appended(p, start_sec, text) ==
    CASE p = "srs" ->
           text # <<>> /\ ~is_excluded(start_sec) /\ ~is_english(text)
               /\ ~should_drop(p, text)
      [] p = "evangelion" ->
           text # <<>> /\ ~is_english(text) /\ ~should_drop(p, text)
               /\ start_sec >= SKIP_BEFORE_SECONDS
      [] p = "nier" -> text # <<>>

\* ' '.join(text_lines)
RECURSIVE join_lines(_)
join_lines(ls) ==
    IF ls = <<>> THEN <<>>
    ELSE IF Len(ls) = 1 THEN ls[1]
    ELSE ls[1] \o <<" ">> \o join_lines(Tail(ls))

\* where the inner loop that started at line i stops: the first line from i
\* on that is a timestamp or empty, len(lines) if there is none
RECURSIVE text_end(_, _, _)
text_end(p, ls, i) ==
    IF i > Len(ls) THEN i
    ELSE IF timestamp_match(p, clean(p, ls[i])) \/ clean(p, ls[i]) = <<>> THEN i
    ELSE text_end(p, ls, i + 1)

\* the loop "while i < len(lines)" of parse_transcript, from line i on
RECURSIVE parse_from(_, _, _)
parse_from(p, ls, i) ==
    IF i > Len(ls) THEN <<>>
    ELSE LET line == clean(p, ls[i]) IN
         IF timestamp_match(p, line)
         THEN LET groups == split(line, "-")
                  start_sec == group_seconds(p, groups[1])
                  end_sec == group_seconds(p, groups[2])
                  j == text_end(p, ls, i + 1)
                  text == join_lines([k \in 1..(j - i - 1) |-> clean(p, ls[i + k])])
              IN (IF is_appended(p, start_sec, text)
                  THEN <<[start_sec |-> start_sec, end_sec |-> end_sec, text |-> text]>>
                  ELSE <<>>)
                 \o parse_from(p, ls, j)
         ELSE parse_from(p, ls, i + 1)

\* parse_transcript(filepath), on the lines of the file
parse_transcript(p, ls) == parse_from(p, ls, 1)

(* split_nier.py: the chapters *)

\* the start times of CHAPTERS, each a sequence of characters
CHAPTERS ==
    <<<<"0", ":", "0", "0", ":", "0", "0">>,
      <<"0", ":", "1", "3", ":", "5", "0">>,
      <<"0", ":", "2", "7", ":", "2", "4">>,
      <<"0", ":", "4", "1", ":", "5", "0">>,
      <<"0", ":", "5", "7", ":", "1", "3">>,
      <<"1", ":", "1", "7", ":", "0", "0">>,
      <<"1", ":", "2", "7", ":", "4", "2">>,
      <<"1", ":", "4", "3", ":", "1", "8">>,
      <<"1", ":", "5", "5", ":", "4", "5">>,
      <<"2", ":", "0", "8", ":", "2", "5">>,
      <<"2", ":", "5", "0", ":", "5", "4">>,
      <<"3", ":", "0", "9", ":", "4", "4">>,
      <<"3", ":", "4", "1", ":", "5", "0">>,
      <<"3", ":", "4", "8", ":", "0", "7">>,
      <<"4", ":", "0", "4", ":", "4", "0">>,
      <<"5", ":", "1", "1", ":", "3", "3">>,
      <<"5", ":", "2", "7", ":", "1", "5">>,
      <<"5", ":", "4", "9", ":", "5", "3">>,
      <<"6", ":", "0", "6", ":", "2", "1">>,
      <<"6", ":", "4", "1", ":", "5", "7">>,
      <<"6", ":", "5", "7", ":", "3", "1">>,
      <<"7", ":", "1", "0", ":", "1", "9">>,
      <<"7", ":", "4", "6", ":", "0", "5">>,
      <<"8", ":", "0", "6", ":", "4", "2">>,
      <<"8", ":", "1", "1", ":", "0", "0">>,
      <<"8", ":", "2", "1", ":", "5", "2">>,
      <<"8", ":", "2", "8", ":", "1", "5">>>>

\* "chapter_times = [(time_to_seconds(t), name) for t, name in CHAPTERS]"
chapter_times == [c \in 1..Len(CHAPTERS) |-> time_to_seconds(CHAPTERS[c])]

\* "start >= chapter_start and start <= chapter_end"
in_chapter_inclusive(c, e) ==
    /\ e.start_sec >= chapter_times[c]
    /\ c < Len(CHAPTERS) => e.start_sec <= chapter_times[c + 1]

\* "start >= chapter_start and start < chapter_end", the end of the last
\* chapter being float('inf')
in_chapter(c, e) ==
    /\ e.start_sec >= chapter_times[c]
    /\ c < Len(CHAPTERS) => e.start_sec < chapter_times[c + 1]

\* the list comprehension chapter_segments
chapter_segments(es, c) == SelectSeq(es, LAMBDA e : in_chapter(c, e))

\* f"{rel // 60:02d}:{rel % 60:02d}" for a time rel >= 0
chapter_stamp(rel) ==
    zero_pad(decimal((rel \div 100) \div 60), 2) \o <<":">>
        \o zero_pad(decimal((rel \div 100) % 60), 2)

\* f.write(f"{start_str}-{end_str}\n{text}\n\n") for every segment of the chapter
RECURSIVE chapter_lines(_, _)
chapter_lines(cs, chapter_start) ==
    IF cs = <<>> THEN <<>>
    ELSE <<chapter_stamp(cs[1].start_sec - chapter_start) \o <<"-">>
               \o chapter_stamp(cs[1].end_sec - chapter_start),
           cs[1].text,
           <<>>>>
         \o chapter_lines(Tail(cs), chapter_start)

\* split_transcript: the chapter files, in the order of CHAPTERS
split_transcript(es) ==
    [c \in 1..Len(CHAPTERS) |-> chapter_lines(chapter_segments(es, c), chapter_times[c])]

(* The transcripts the scripts are run on *)

BlockStarts == {10000, 83000, 462000}

BlockDurations == {200}

BlockTexts == {<<Konnichiwa>>, <<Hai, Souka>>, <<<<"ha", "a">>>>}

Styles == {"MM:SS", "H:MM:SS"}

\* a time of whole seconds in the style of a transcript
stamp_of(style, t) ==
    LET whole == t \div 100 IN
    IF style = "MM:SS" THEN seconds_to_time(t)
    ELSE decimal(whole \div 3600) \o <<":">> \o zero_pad(decimal((whole % 3600) \div 60), 2)
             \o <<":">> \o zero_pad(decimal(whole % 60), 2)

Blocks ==
    {[start_sec |-> b, end_sec |-> b + d, text_lines |-> ls, style |-> st] :
        b \in BlockStarts, d \in BlockDurations, ls \in BlockTexts, st \in Styles}

RECURSIVE Sources(_)
Sources(n) ==
    IF n = 0 THEN {<<>>}
    ELSE Sources(n - 1) \cup {Append(s, b) : s \in Sources(n - 1), b \in Blocks}

\* the lines of a transcript: per block the timestamp line, the text lines
\* and a blank line
RECURSIVE plain_lines(_)
plain_lines(src) ==
    IF src = <<>> THEN <<>>
    ELSE <<stamp_of(src[1].style, src[1].start_sec) \o <<"-">>
               \o stamp_of(src[1].style, src[1].end_sec)>>
         \o src[1].text_lines \o <<<<>>>> \o plain_lines(Tail(src))

\* the same lines, each behind its line number and an arrow
numbered_lines(ls) ==
    [k \in 1..Len(ls) |-> <<" ">> \o decimal(k) \o <<Arrow>> \o ls[k]]

transcript_lines(src, num) ==
    IF num THEN numbered_lines(plain_lines(src)) ELSE plain_lines(src)

TextIdle ==
    /\ parser = "srs"
    /\ tpc = "idle"
    /\ source = <<>>
    /\ numbered = FALSE
    /\ lines = <<>>
    /\ entries = <<>>
    /\ chapters = <<>>

(* seconds_to_ffmpeg_time *)

\* seconds_to_ffmpeg_time(seconds), the argument in thousandths of a second:
\* hours and minutes of int(seconds), the seconds field seconds % 60 in the
\* format 05.2f, which rounds to the nearest hundredth (a thousandth of 5 is
\* a tie that the binary representation decides; the inputs have none)
seconds_to_ffmpeg_time(ms) ==
    LET whole == ms \div 1000
        h == whole \div 3600
        m == (whole % 3600) \div 60
        s == ms % 60000
        hundredths == (s + 5) \div 10
    IN zero_pad(decimal(h), 2) \o <<":">> \o zero_pad(decimal(m), 2) \o <<":">>
           \o zero_pad(decimal(hundredths \div 100), 2) \o <<".">>
           \o zero_pad(decimal(hundredths % 100), 2)

NoStamp == <<>>

HourChoices == {0, 1}

MinuteChoices == {0, 59}

MillisecondChoices ==
    {0, 4, 996, 1234, 9994, 9996, 12344, 12346, 30001, 45678, 59000, 59994, 59996, 59999}

Times ==
    {3600000 * h + 60000 * m + s :
        h \in HourChoices, m \in MinuteChoices, s \in MillisecondChoices}

FormatIdle ==
    /\ seconds = 0
    /\ ffmpeg_time = NoStamp

----------------------------------------------------------------------------
(* The annotation scripts: generate_nier_translations.py,                   *)
(* generate_spanish_translations.py (resume and checkpoints) and            *)
(* generate_breakdowns.py, generate_nier_breakdowns.py (neither).           *)
(*                                                                          *)
(* A translation is a string ("" when empty); grammar is a string, "null"   *)
(* standing for None; a dict is a function of its keys.                     *)

Tools == {"translations", "breakdowns"}

\* "if (i + 1) % 10 == 0"
CHECKPOINT_EVERY == 10

\* dict.get(key, default)
get(d, key, default) == IF key \in DOMAIN d THEN d[key] ELSE default

\* what the except branch of generate_breakdown returns
EmptyBreakdown == [translation |-> "", vocabulary |-> <<>>, grammar |-> "null"]

\* a response as the prompt asks for it
FullBreakdown ==
    [translation |-> "hello", vocabulary |-> <<"word">>, grammar |-> "note"]

\* the JSON object {}
NoKeys == [k \in {} |-> "null"]

\* What the try block of generate_breakdown meets: an exception of the API
\* call, a text json.loads rejects, or a text it parses: to a dict, or to a
\* list, a string or a number.
Outcomes ==
    {[kind |-> "exception"], [kind |-> "not_json"],
     [kind |-> "dict", value |-> FullBreakdown], [kind |-> "dict", value |-> NoKeys],
     [kind |-> "list"], [kind |-> "str"], [kind |-> "number"]}

\* generate_breakdown(client, text): the parsed JSON whatever its type, the
\* empty breakdown after any exception
generate_breakdown(o) ==
    IF o.kind \in {"exception", "not_json"}
    THEN [kind |-> "dict", value |-> EmptyBreakdown]
    ELSE o

\* breakdown.get exists: only a dict has the method, anything else raises
\* AttributeError in main, outside the try block
has_get(b) == b.kind = "dict"

\* the result record of main
annotated(segment, b) ==
    [start |-> segment.start, end |-> segment.end, text |-> segment.text,
     audio_file |-> segment.audio_file,
     translation |-> get(b.value, "translation", ""),
     vocabulary |-> get(b.value, "vocabulary", <<>>),
     grammar |-> get(b.value, "grammar", "null")]

\* "if item.get('translation')"
truthy(item) == item.translation # ""

\* existing_data after "for item in existing: existing_data[item['text']] = item":
\* of the items of one text the last one stays
index_by_text(items) ==
    LET kept == {k \in 1..Len(items) : truthy(items[k])}
        last(t) == Max({k \in kept : items[k].text = t})
    IN [t \in {items[k].text : k \in kept} |-> items[last(t)]]

\* open(output_file, 'a'): the dump is added to what the file holds
write_file_appending(old, res) == [exists |-> TRUE, items |-> old.items \o res]

\* "with open(output_file, 'w') as f: json.dump(results, f)": the file is
\* truncated and holds the list
write_file(old, res) == [exists |-> TRUE, items |-> res]

NoFile == [exists |-> FALSE, items |-> <<>>]

\* the checkpoint of the translation scripts after segment number n
checkpoint(t, n, old, res) ==
    IF t = "translations" /\ n % CHECKPOINT_EVERY = 0 THEN write_file(old, res) ELSE old

(* segments.json: the manifest of a build script *)

AnnTexts == {Konnichiwa, Hai}

manifest_start(k) == 1000 + 500 * (k - 1)

manifest_segment(k, text, shift) ==
    [start |-> seconds_to_time(manifest_start(k) + shift),
     end |-> seconds_to_time(manifest_start(k) + shift + 200),
     text |-> text,
     audio_file |-> clip_filename("evangelion", k - 1)]

RECURSIVE ShortManifests(_)
ShortManifests(n) ==
    IF n = 0 THEN {<<>>}
    ELSE {Append(l, manifest_segment(n, t, 0)) : l \in ShortManifests(n - 1), t \in AnnTexts}

\* a manifest one segment longer than the checkpoint period, all texts different
LongManifest ==
    [k \in 1..(CHECKPOINT_EVERY + 1) |->
        manifest_segment(k, Append(Konnichiwa, Digit[((k - 1) % CHECKPOINT_EVERY) + 1])
                               \o (IF k > CHECKPOINT_EVERY THEN <<"!">> ELSE <<>>), 0)]

Manifests(t) ==
    UNION {ShortManifests(n) : n \in 0..MaxAnnotated}
    \cup (IF t = "translations" THEN {LongManifest} ELSE {})

\* the manifest after the build script has run again with other settings:
\* the same texts and clips, every time one second later
retimed(l) ==
    [k \in 1..Len(l) |->
        [l[k] EXCEPT !.start = seconds_to_time(time_to_seconds(l[k].start) + 100),
                     !.end = seconds_to_time(time_to_seconds(l[k].end) + 100)]]

Runs == {1, 2}

(* The state machine of an annotation run *)

AnnIdle ==
    /\ tool = "translations"
    /\ apc = "idle"
    /\ run = 0
    /\ segments_json = <<>>
    /\ data_json = NoFile
    /\ data_before = NoFile
    /\ existing_data = <<>>
    /\ results = <<>>
    /\ ai = 0
    /\ llm = <<>>

InitAnnotate ==
    /\ script = "evangelion"
    /\ cfg = Config(script, MAX_GAP_TO_MERGE(script))
    /\ pc = "annotate"
    /\ segments = <<>>
    /\ current = NoCurrent
    /\ merged = <<>>
    /\ opened = 0
    /\ closed = <<>>
    /\ audio = <<>>
    /\ global_rms_max = None
    /\ idx = 0
    /\ nominal = <<>>
    /\ ffmpeg = <<>>
    /\ output = <<>>
    /\ tool \in Tools
    /\ apc = "start"
    /\ run = 1
    /\ segments_json \in Manifests(tool)
    /\ data_json = NoFile
    /\ data_before = NoFile
    /\ existing_data = <<>>
    /\ results = <<>>
    /\ ai = 0
    /\ llm = <<>>
    /\ TextIdle
    /\ FormatIdle

\* main up to the loop: segments.json is loaded, and in the translation
\* scripts the saved records are indexed by text
AnnLoad ==
    /\ apc = "start"
    /\ existing_data' = IF tool = "translations" /\ data_json.exists
                        THEN index_by_text(data_json.items) ELSE <<>>
    /\ data_before' = data_json
    /\ results' = <<>>
    /\ ai' = 0
    /\ llm' = <<>>
    /\ apc' = "loop"
    /\ UNCHANGED <<tool, run, segments_json, data_json>>

\* an iteration on a segment whose text is in existing_data: the saved record
\* is reused, and "continue" passes the checkpoint
AnnSkip ==
    /\ apc = "loop"
    /\ ai < Len(segments_json)
    /\ segments_json[ai + 1].text \in DOMAIN existing_data
    /\ results' = Append(results, existing_data[segments_json[ai + 1].text])
    /\ ai' = ai + 1
    /\ UNCHANGED <<tool, apc, run, segments_json, data_json, data_before,
                   existing_data, llm>>

\* the records of this run that came back without a translation (a reused
\* record always has one)
failures(res) == Cardinality({k \in 1..Len(res) : ~truthy(res[k])})

\* an iteration that calls the LLM
AnnProcess ==
    /\ apc = "loop"
    /\ ai < Len(segments_json)
    /\ segments_json[ai + 1].text \notin DOMAIN existing_data
    /\ llm' = Append(llm, ai + 1)
    /\ \E o \in Outcomes :
         LET breakdown == generate_breakdown(o) IN
         IF has_get(breakdown)
         THEN /\ truthy(annotated(segments_json[ai + 1], breakdown))
                    \/ failures(results) < MaxFailures
              /\ results' = Append(results, annotated(segments_json[ai + 1], breakdown))
              /\ ai' = ai + 1
              /\ data_json' = checkpoint(tool, ai + 1, data_json, results')
              /\ apc' = apc
         ELSE \* AttributeError: the interpreter prints the traceback and exits
              /\ results' = <<>>
              /\ ai' = ai
              /\ data_json' = data_json
              /\ apc' = "crashed"
    /\ UNCHANGED <<tool, run, segments_json, data_before, existing_data>>

\* the write after the loop
AnnFinal ==
    /\ apc = "loop"
    /\ ai = Len(segments_json)
    /\ data_json' = write_file(data_json, results)
    /\ apc' = "done"
    /\ UNCHANGED <<tool, run, segments_json, data_before, existing_data, results, ai, llm>>

\* the script is started again, on the same segments.json or on a rebuilt one
AnnRerun ==
    /\ apc \in {"done", "crashed"}
    /\ run + 1 \in Runs
    /\ run' = run + 1
    /\ segments_json' \in {segments_json, retimed(segments_json)}
    /\ apc' = "start"
    /\ existing_data' = <<>>
    /\ results' = <<>>
    /\ ai' = 0
    /\ llm' = <<>>
    /\ UNCHANGED <<tool, data_json, data_before>>

NextAnnotate ==
    /\ AnnLoad \/ AnnSkip \/ AnnProcess \/ AnnFinal \/ AnnRerun
    /\ UNCHANGED <<script, cfg, pc, mergeVars, audioVars, textVars, fmtVars>>

----------------------------------------------------------------------------
(* The state machine: adjust_endpoints_with_audio, split_audio_ffmpeg, save *)

InitAudio ==
    /\ script \in AudioScripts
    /\ cfg = Config(script, MAX_GAP_TO_MERGE(script))
    /\ pc = "adjust"
    /\ segments = <<>>
    /\ current = NoCurrent
    /\ opened = 0
    /\ closed = <<>>
    /\ merged \in NominalLists(script, cfg)
    /\ nominal = merged
    /\ audio \in Audios(merged)
    /\ global_rms_max = None
    /\ idx = 0
    /\ ffmpeg = <<>>
    /\ output = <<>>
    /\ AnnIdle
    /\ TextIdle
    /\ FormatIdle

InitMergeOnly ==
    /\ InitMerge
    /\ audio = <<>>
    /\ global_rms_max = None
    /\ idx = 0
    /\ nominal = <<>>
    /\ ffmpeg = <<>>
    /\ output = <<>>
    /\ AnnIdle
    /\ TextIdle
    /\ FormatIdle

\* adjust_endpoints_with_audio, before its loop: the global RMS maximum
AdjustBegin ==
    /\ pc = "adjust"
    /\ global_rms_max' = global_max_for(script, audio)
    /\ idx' = 1
    /\ pc' = "adjust_loop"
    /\ UNCHANGED <<script, cfg, mergeVars, audio, nominal, ffmpeg, output>>

\* one iteration of "for i, seg in enumerate(segments)": segment idx is refined in place
AdjustStep ==
    /\ pc = "adjust_loop"
    /\ idx <= Len(merged)
    /\ merged' = adjust_step(script, cfg, audio, global_rms_max, merged, nominal, idx)
    /\ idx' = IF idx = Len(merged) THEN 1 ELSE idx + 1
    /\ pc' = IF idx = Len(merged) THEN "split" ELSE pc
    /\ UNCHANGED <<script, cfg, segments, current, opened, closed,
                   audio, global_rms_max, nominal, ffmpeg, output>>

ReturnCodes == {0, 1}

\* subprocess.run(cmd, capture_output=True, check=True): a non-zero return
\* code raises CalledProcessError out of the loop
after_run_checked(rc, i, n) ==
    IF rc # 0 THEN "failed" ELSE IF i = n THEN "save" ELSE "split"

\* where main() stands after "subprocess.run(cmd, capture_output=True)" on
\* segment i of n: the CompletedProcess is dropped, the loop goes on
after_run(rc, i, n) == IF i = n THEN "save" ELSE "split"

\* one iteration of the loop of split_audio_ffmpeg: the clip name is attached,
\* ffmpeg runs and its return code is not looked at
SplitStep ==
    /\ pc = "split"
    /\ idx <= Len(merged)
    /\ merged' = [merged EXCEPT
                    ![idx] = with_audio_file(merged[idx], clip_filename(script, idx - 1))]
    /\ \E rc \in ReturnCodes :
         /\ ffmpeg' = Append(ffmpeg, rc)
         /\ pc' = after_run(rc, idx, Len(merged))
    /\ idx' = IF idx = Len(merged) THEN 1 ELSE idx + 1
    /\ UNCHANGED <<script, cfg, segments, current, opened, closed,
                   audio, global_rms_max, nominal, output>>

\* main, step 6: the manifest
Save ==
    /\ pc = "save"
    /\ output' = [k \in 1..Len(merged) |-> manifest_entry(merged[k])]
    /\ pc' = "done"
    /\ UNCHANGED <<script, cfg, mergeVars, audio, global_rms_max, idx, nominal, ffmpeg>>

\* the exit status of the process: main() returns normally and the
\* interpreter exits with 0; no code path calls sys.exit after the clips
exit_status == IF pc = "done" THEN 0 ELSE None

----------------------------------------------------------------------------
(* No build script runs *)

BuildIdle ==
    /\ script = "evangelion"
    /\ cfg = Config(script, MAX_GAP_TO_MERGE(script))
    /\ pc = "idle"
    /\ segments = <<>>
    /\ current = NoCurrent
    /\ merged = <<>>
    /\ opened = 0
    /\ closed = <<>>
    /\ audio = <<>>
    /\ global_rms_max = None
    /\ idx = 0
    /\ nominal = <<>>
    /\ ffmpeg = <<>>
    /\ output = <<>>

----------------------------------------------------------------------------
(* The state machine: parse_transcript and split_transcript *)

InitText ==
    /\ BuildIdle
    /\ AnnIdle
    /\ FormatIdle
    /\ parser \in Parsers
    /\ tpc = "start"
    /\ source \in Sources(MaxBlocks)
    /\ numbered \in BOOLEAN
    /\ lines = transcript_lines(source, numbered)
    /\ entries = <<>>
    /\ chapters = <<>>

\* segments = parse_transcript(TRANSCRIPT_PATH)
Parse ==
    /\ tpc = "start"
    /\ entries' = parse_transcript(parser, lines)
    /\ tpc' = "parsed"
    /\ UNCHANGED <<parser, source, numbered, lines, chapters>>

\* split_transcript of split_nier, after its call of parse_transcript
SplitTranscript ==
    /\ tpc = "parsed"
    /\ parser = "nier"
    /\ chapters' = split_transcript(entries)
    /\ tpc' = "split"
    /\ UNCHANGED <<parser, source, numbered, lines, entries>>

NextText ==
    /\ Parse \/ SplitTranscript
    /\ UNCHANGED <<script, cfg, pc, mergeVars, audioVars, annVars, fmtVars>>

(* The state machine: a call of seconds_to_ffmpeg_time *)

InitFormat ==
    /\ BuildIdle
    /\ AnnIdle
    /\ TextIdle
    /\ seconds \in Times
    /\ ffmpeg_time = NoStamp

Format ==
    /\ ffmpeg_time = NoStamp
    /\ ffmpeg_time' = seconds_to_ffmpeg_time(seconds)
    /\ UNCHANGED seconds

NextFormat ==
    /\ Format
    /\ UNCHANGED <<script, cfg, pc, mergeVars, audioVars, annVars, textVars>>

----------------------------------------------------------------------------

NextMerge ==
    /\ MergeEmpty \/ MergeFirst \/ MergeStep \/ MergeLast
    /\ UNCHANGED audioVars
    /\ UNCHANGED <<annVars, textVars, fmtVars>>

NextAudio ==
    /\ AdjustBegin \/ AdjustStep \/ SplitStep \/ Save
    /\ UNCHANGED <<annVars, textVars, fmtVars>>

Init == InitMergeOnly \/ InitAudio \/ InitAnnotate \/ InitText \/ InitFormat

Next == NextMerge \/ NextAudio \/ NextAnnotate \/ NextText \/ NextFormat

Spec == Init /\ [][Next]_vars

\* merge_segments alone
SpecMerge == InitMergeOnly /\ [][NextMerge]_vars

\* main from adjust_endpoints_with_audio on
SpecAudio == InitAudio /\ [][NextAudio]_vars

\* the annotation scripts, run once or twice
SpecAnnotate == InitAnnotate /\ [][NextAnnotate]_vars

\* parse_transcript, and split_transcript of split_nier
SpecText == InitText /\ [][NextText]_vars

\* seconds_to_ffmpeg_time
SpecFormat == InitFormat /\ [][NextFormat]_vars

----------------------------------------------------------------------------
(* Properties of merge_segments *)

RECURSIVE Flatten(_)
Flatten(ss) == IF ss = <<>> THEN <<>> ELSE Head(ss) \o Flatten(Tail(ss))

IsFinalized(c) == c.fate = "finalize"

Finalized == SelectSeq(closed, IsFinalized)

ClosedTexts == Flatten([k \in 1..Len(closed) |-> closed[k].texts])

InputTexts == [i \in 1..Len(segments) |-> segments[i].text]

Duration(seg) == seg.end_sec - seg.start_sec

\* C1: every finalized segment satisfies end - start <= MAX_MERGED_DURATION,
\* a segment built from a single raw entry included.
C1_MergeDurationCap ==
    \A k \in 1..Len(merged) : Duration(merged[k]) <= cfg.MAX_MERGED_DURATION

\* the k-th returned segment is the k-th finalized accumulator, and the entries
\* that seeded consecutive segments ascend in the input
InEntryOrder ==
    /\ Len(merged) = Len(Finalized)
    /\ \A k \in 1..Len(merged) :
         /\ merged[k].start_sec = segments[Finalized[k].first].start_sec
         /\ merged[k].text = join(Finalized[k].texts)
    /\ \A k \in 1..(Len(merged) - 1) : Finalized[k].first < Finalized[k + 1].first

StartsAscend(l) == \A k \in 1..(Len(l) - 1) : l[k].start_sec <= l[k + 1].start_sec

\* C3 as stated: the returned segments are non-decreasing in start time and
\* stand in the order of the raw entries they were built from.
C3_MergeNeverReorders == InEntryOrder /\ StartsAscend(merged)

\* C3 as amended: the returned segments stand in the order of the raw entries
\* they were built from, and are non-decreasing in start time when the raw
\* entries are.
C3_MergeKeepsEntryOrder ==
    InEntryOrder /\ (StartsAscend(segments) => StartsAscend(merged))

\* two segments with different texts and starts have been returned for
\* entries in time order
C3_Witness ==
    /\ pc = "merged"
    /\ StartsAscend(segments)
    /\ Len(merged) = 2
    /\ merged[1].start_sec < merged[2].start_sec
    /\ merged[1].text # merged[2].text

\* C4: every raw entry's text is in exactly one accumulator: the text lists of
\* the closed accumulators (finalized, or dropped by build_srs as isolated
\* filler), followed by the open one, are the input texts once each, in order;
\* the finalized ones are the returned segments, and only build_srs drops.
C4_EveryEntryInOneSegment ==
    /\ ClosedTexts \o (IF pc = "merge" THEN current.texts ELSE <<>>) = InputTexts
    /\ Len(merged) = Len(Finalized)
    /\ \A k \in 1..Len(merged) : merged[k].text = join(Finalized[k].texts)
    /\ \A k \in 1..Len(closed) : closed[k].fate = "drop" => script = "srs"

\* build_srs has merged two entries into the segment it returns
C4_Witness ==
    /\ pc = "merged"
    /\ script = "srs"
    /\ Len(segments) = 2
    /\ Len(closed) = 1
    /\ Len(closed[1].texts) = 2
    /\ closed[1].texts[1] # closed[1].texts[2]
    /\ Len(merged) = 1

\* C5: every finalized segment satisfies start < end strictly.
C5_StartBeforeEnd ==
    \A k \in 1..Len(merged) : merged[k].start_sec < merged[k].end_sec

ScenarioEntries ==
    <<[start_sec |-> 1000, end_sec |-> 1200, text |-> Konnichiwa],
      [start_sec |-> 1300, end_sec |-> 1400, text |-> Hai]>>

C10_Scenario ==
    (pc = "merged" /\ segments = ScenarioEntries /\ script # "preview") =>
        IF cfg.MAX_GAP_TO_MERGE = 150
        THEN merged = <<[start_sec |-> 1000, end_sec |-> 1400,
                         text |-> Konnichiwa \o <<" ", "/", " ">> \o Hai]>>
        ELSE merged = <<[start_sec |-> 1000, end_sec |-> 1200, text |-> Konnichiwa],
                        [start_sec |-> 1300, end_sec |-> 1400, text |-> Hai]>>

C10_Rule ==
    LET seg == segments'[Len(segments')] IN
    (/\ pc = "merge"
     /\ Len(segments) >= 1
     /\ Len(segments') = Len(segments) + 1
     /\ current.end_sec - current.start_sec < cfg.MIN_SEGMENT_DURATION
     /\ seg.start_sec - current.end_sec <= cfg.MAX_GAP_TO_MERGE
     /\ seg.end_sec - current.start_sec <= cfg.MAX_MERGED_DURATION)
    => /\ current' = [start_sec |-> current.start_sec, end_sec |-> seg.end_sec,
                      texts |-> Append(current.texts, seg.text)]
       /\ merged' = merged

\* C10: an accumulator shorter than MIN_SEGMENT_DURATION absorbs an entry whose
\* gap is <= MAX_GAP_TO_MERGE (the merged duration staying within the cap); the
\* entries (10,12,konnichiwa), (13,14,hai) give one segment 10-14
\* "konnichiwa / hai" at a gap of 1.5 s and two segments at a gap of 0.5 s.
C10_ShortAccumulatorAbsorbs == [][C10_Rule]_vars /\ [](C10_Scenario)

\* the scenario has been merged into one segment at MAX_GAP_TO_MERGE = 1.5
C10_Witness ==
    /\ pc = "merged"
    /\ segments = ScenarioEntries
    /\ cfg.MAX_GAP_TO_MERGE = 150
    /\ script \in {"srs", "evangelion"}
    /\ Len(merged) = 1

----------------------------------------------------------------------------
(* Properties of adjust_endpoints_with_audio and of the manifest *)

\* adjust_endpoints_with_audio has just returned
AdjustReturned == pc = "split" /\ idx = 1

NominalPrevEnd(k) == IF k > 1 THEN nominal[k - 1].end_sec ELSE None

NominalNextStart(k) == IF k < Len(nominal) THEN nominal[k + 1].start_sec ELSE None

\* the end search of segment k, from transcript times alone
EndSearch(k) ==
    silence_after(script, cfg, audio, nominal[k].end_sec, cfg.SEARCH_WINDOW,
                  NominalNextStart(k), global_rms_max)

\* the start search of segment k with the floor prev_end_time
StartSearch(k, prev_end_time) ==
    IF script = "srs" THEN [path |-> "absent", value |-> nominal[k].start_sec]
    ELSE silence_before(cfg, audio, nominal[k].start_sec, prev_end_time, global_rms_max)

\* C2: after adjust_endpoints_with_audio no refined end lies past the
\* successor's transcript start and no refined start before the predecessor's
\* transcript end.
C2_RefinementNeverCrossesNeighbours ==
    AdjustReturned =>
        \A k \in 1..Len(merged) :
            /\ k < Len(merged) => merged[k].end_sec <= nominal[k + 1].start_sec
            /\ k > 1 => merged[k].start_sec >= nominal[k - 1].end_sec

Gains == {<<3, 1>>, <<1, 5>>}

\* every sample multiplied by n/d (the levels are multiples of d)
Amplified(a, g) == [k \in 1..Len(a) |-> [upto |-> a[k].upto, level |-> (g[1] * a[k].level) \div g[2]]]

\* C7: multiplying every sample by a positive constant leaves every refined
\* start and end as it is.
C7_ScaleInvariance ==
    AdjustReturned =>
        \A g \in Gains :
            adjust_endpoints_with_audio(script, cfg, nominal, Amplified(audio, g)) = merged

\* build_evangelion has found a silence run after a segment and a
\* silence-to-speech transition before one, over a background that is not zero
C7_Witness ==
    /\ AdjustReturned
    /\ script = "evangelion"
    /\ global_rms_max > 0
    /\ \E k \in 1..Len(audio) : audio[k].level > 0 /\ audio[k].level < global_rms_max
    /\ \E k \in 1..Len(merged) : EndSearch(k).path = "found"
    /\ \E k \in 1..Len(merged) :
         StartSearch(k, IF k > 1 THEN merged[k - 1].end_sec ELSE None).path = "found"

ManifestWritten == pc = "done"

\* C8 as stated: the manifest read back gives the refined start, the end
\* truncated to whole seconds, the text and the clip name of every segment.
C8_ManifestRoundTrip ==
    ManifestWritten =>
        /\ Len(output) = Len(merged)
        /\ \A k \in 1..Len(merged) :
             /\ time_to_seconds(output[k].start) = merged[k].start_sec
             /\ time_to_seconds(output[k].end) = int_seconds(merged[k].end_sec)
             /\ output[k].text = merged[k].text
             /\ output[k].audio_file = merged[k].audio_file

\* C8 as amended: the manifest read back gives the refined start and the
\* refined end both truncated to whole seconds, the text and the clip name.
C8_ManifestRoundTripTruncated ==
    ManifestWritten =>
        /\ Len(output) = Len(merged)
        /\ \A k \in 1..Len(merged) :
             /\ time_to_seconds(output[k].start) = int_seconds(merged[k].start_sec)
             /\ time_to_seconds(output[k].end) = int_seconds(merged[k].end_sec)
             /\ output[k].text = merged[k].text
             /\ output[k].audio_file = merged[k].audio_file

\* a manifest with a segment whose refined start and end are not whole seconds
C8_Witness ==
    /\ ManifestWritten
    /\ \E k \in 1..Len(merged) :
         /\ merged[k].start_sec % 100 # 0
         /\ merged[k].end_sec % 100 # 0
         /\ output[k].start # output[k].end

----------------------------------------------------------------------------
(* Properties of split_audio_ffmpeg *)

SplitLoopLeft == pc \notin {"merge", "merged", "adjust", "adjust_loop", "split"}

\* C11: a failing ffmpeg run does not stop the loop of split_audio_ffmpeg:
\* while segments remain the next iteration can run whatever the return codes
\* so far, and once the loop is left ffmpeg has run once for every segment and
\* every segment carries its clip name.
C11_FfmpegFailureDoesNotStopLoop ==
    /\ (pc = "split" /\ idx <= Len(merged)) => ENABLED SplitStep
    /\ pc = "split" => Len(ffmpeg) = idx - 1
    /\ SplitLoopLeft =>
         /\ Len(ffmpeg) = Len(merged)
         /\ \A k \in 1..Len(merged) :
              merged[k].audio_file = clip_filename(script, k - 1)

\* ffmpeg has failed for the first of two segments and has run for the second
C11_Witness ==
    /\ pc = "save"
    /\ Len(merged) = 2
    /\ ffmpeg[1] # 0
    /\ Len(ffmpeg) = 2

\* C15: a run in which ffmpeg failed for a segment ends with an exit status
\* other than 0, or with that segment marked failed in the manifest.
C15_FailedClipIsRecorded ==
    (pc = "done" /\ \E k \in 1..Len(ffmpeg) : ffmpeg[k] # 0) =>
        \/ exit_status # 0
        \/ \E k \in 1..Len(output) :
              ffmpeg[k] # 0 /\ DOMAIN output[k] # {"start", "end", "text", "audio_file"}

----------------------------------------------------------------------------
(* Further properties of merge_segments *)

\* the step is an iteration of the loop of merge_segments on the entry seg
LoopStepOn(seg) ==
    /\ pc = "merge"
    /\ Len(segments) >= 1
    /\ segments' = Append(segments, seg)

\* C17: when a merge rule has fired and the merged duration
\* entry.end - accumulator.start would exceed MAX_MERGED_DURATION, the entry is
\* not merged: the accumulator is finalized as it is and a new accumulator
\* holds exactly that entry.
C17_Rule ==
    LET seg == segments'[Len(segments')] IN
    (/\ LoopStepOn(seg)
     /\ should_merge(script, cfg, current, seg)
     /\ seg.end_sec - current.start_sec > cfg.MAX_MERGED_DURATION)
    => /\ current' = [start_sec |-> seg.start_sec, end_sec |-> seg.end_sec,
                      texts |-> <<seg.text>>]
       /\ merged' = Append(merged, finalize_segment(script, current))

C17_CapVetoesEveryMerge == [][C17_Rule]_vars

\* C18: an entry whose gap to the accumulator's end is <= 0.5 s is merged
\* whatever the accumulator's duration and whatever MAX_GAP_TO_MERGE is, unless
\* the merged duration would exceed the cap.
C18_Rule ==
    LET seg == segments'[Len(segments')] IN
    (/\ LoopStepOn(seg)
     /\ seg.start_sec - current.end_sec <= 50
     /\ seg.end_sec - current.start_sec <= cfg.MAX_MERGED_DURATION)
    => /\ current' = [start_sec |-> current.start_sec, end_sec |-> seg.end_sec,
                      texts |-> Append(current.texts, seg.text)]
       /\ merged' = merged

IsolatedFiller(c) ==
    /\ Len(c.texts) = 1
    /\ strip(c.texts[1]) \in DROP_IF_ISOLATED
    /\ segments[c.first].end_sec - segments[c.first].start_sec < 100

\* C19: in build_srs an accumulator is discarded exactly when it is one entry
\* shorter than 1 s with a text of DROP_IF_ISOLATED, on every path that closes
\* it; every other accumulator is finalized.
C19_IsolatedFillerNeverFinalized ==
    script = "srs" =>
        \A k \in 1..Len(closed) :
            closed[k].fate = (IF IsolatedFiller(closed[k]) THEN "drop" ELSE "finalize")

----------------------------------------------------------------------------
(* The fallback of find_silence_after *)

\* C20: when find_silence_after finds no silence run (window empty or shorter
\* than the minimum silence, no energy, no run below the threshold) the refined
\* end is the next segment's start - 0.05 s if there is a next segment, and the
\* transcript end + FALLBACK_BUFFER only if there is none.
C20_FallbackPrefersNextStart ==
    AdjustReturned =>
        \A k \in 1..Len(merged) :
            EndSearch(k).path # "found" =>
                merged[k].end_sec =
                    IF k < Len(merged) THEN nominal[k + 1].start_sec - 5
                    ELSE nominal[k].end_sec + cfg.FALLBACK_BUFFER

----------------------------------------------------------------------------
(* The annotation runs *)

\* a result record has the fields of its segment and the three annotation fields
WellFormed(r) ==
    {"start", "end", "text", "audio_file", "translation", "vocabulary", "grammar"}
        \subseteq DOMAIN r

\* C12: whatever the LLM call does for a segment (an exception of the API, a
\* response that is not JSON, a response that is valid JSON of any shape: an
\* object, an array, a string, a number) the run does not abort, and the
\* segment gets a well-formed record.
C12_EveryOutcomeYieldsARecord ==
    /\ apc # "crashed"
    /\ apc \in {"loop", "done"} =>
          /\ Len(results) = ai
          /\ \A k \in 1..Len(results) : WellFormed(results[k])

\* the file the run found is the output of a fully successful run on the
\* segments.json of this run
FullySuccessful(file, manifest) ==
    /\ file.exists
    /\ Len(file.items) = Len(manifest)
    /\ \A k \in 1..Len(manifest) :
          /\ truthy(file.items[k])
          /\ file.items[k].text = manifest[k].text
          /\ file.items[k].start = manifest[k].start
          /\ file.items[k].end = manifest[k].end
          /\ file.items[k].audio_file = manifest[k].audio_file

\* C13: on a resumed run a segment whose text has a saved record with a
\* non-empty translation makes no LLM call, any other segment is sent again;
\* a run after a fully successful run makes no LLM call and rewrites an
\* identical output file.
C13_RerunAfterSuccessIsIdle ==
    /\ (tool = "translations" /\ apc \in {"loop", "done"}) =>
          \A k \in 1..ai :
              (\E j \in 1..Len(llm) : llm[j] = k)
                  <=> ~(\E j \in 1..Len(data_before.items) :
                            /\ data_before.items[j].text = segments_json[k].text
                            /\ truthy(data_before.items[j]))
    /\ (tool = "translations" /\ apc = "done"
            /\ FullySuccessful(data_before, segments_json)) =>
          /\ llm = <<>>
          /\ data_json = data_before

\* C14: every write of the output file, the checkpoints and the final one,
\* replaces the whole file by the list of the records accumulated so far in
\* the run, in segment order: nothing is appended, and no record of a segment
\* the run has not reached is in it.
C14_Rule ==
    data_json' # data_json =>
        /\ data_json' = [exists |-> TRUE, items |-> results']
        /\ Len(results') = ai'
        /\ \A k \in 1..ai' : results'[k].text = segments_json[k].text

C14_EveryWriteIsTheWholeList == [][C14_Rule]_vars

\* the checkpoint after the tenth segment is on disk, the run is in its loop
\* with a segment still to go
C14_Witness ==
    /\ apc = "loop"
    /\ ai = CHECKPOINT_EVERY
    /\ ai < Len(segments_json)
    /\ data_json.exists
    /\ Len(data_json.items) = CHECKPOINT_EVERY
    /\ data_json.items = results

\* C16: record i of the output carries start, end, text and audio_file of
\* segment i of the segments.json the run has read, also on a resumed run,
\* with texts that occur twice or timings that have changed.
C16_RecordCarriesItsSegment ==
    apc = "done" =>
        /\ Len(data_json.items) = Len(segments_json)
        /\ \A i \in 1..Len(segments_json) :
              /\ data_json.items[i].start = segments_json[i].start
              /\ data_json.items[i].end = segments_json[i].end
              /\ data_json.items[i].text = segments_json[i].text
              /\ data_json.items[i].audio_file = segments_json[i].audio_file

----------------------------------------------------------------------------
(* The forward and the backward search, frame by frame *)

\* the samples the end search of segment k reads: audio[start_sample:end_sample]
EndWindowStart(k) ==
    nominal[k].end_sec + (IF script = "srs" THEN cfg.MIN_EXTENSION ELSE 0)

EndWindowStop(k) ==
    Min({audio_len(audio), EndWindowStart(k) + cfg.SEARCH_WINDOW}
        \cup (IF k < Len(nominal) THEN {nominal[k + 1].start_sec - 5} ELSE {}))

\* the end search of segment k has computed frame energies and scanned them
EndScanned(k) == EndSearch(k).path \in {"none", "found"}

EndFrames(k) == rms_frames(audio, EndWindowStart(k), EndWindowStop(k))

\* what the frame energies of the end search of segment k are divided by
EndDivisor(k) == normalizer(script, EndFrames(k), global_rms_max)

\* min_silence_frames consecutive frames from frame i on, all inside the
\* window and all below SILENCE_THRESHOLD
QuietRunAt(k, i) ==
    /\ i \in DOMAIN EndFrames(k)
    /\ i + min_silence_frames(cfg) - 1 \in DOMAIN EndFrames(k)
    /\ all_below(cfg, EndFrames(k), EndDivisor(k), i, i + min_silence_frames(cfg))

\* C21: the forward search looks at frames from nominal_end + MIN_EXTENSION
\* on: a refined end that comes from a silence run is nominal_end +
\* MIN_EXTENSION, plus the offset of the run in that window (which is not
\* negative), plus END_BUFFER, and never below nominal_end + MIN_EXTENSION.
C21_SearchStartsAfterMinExtension ==
    AdjustReturned =>
        \A k \in 1..Len(merged) :
            EndSearch(k).path = "found" =>
                /\ merged[k].end_sec >= nominal[k].end_sec + cfg.MIN_EXTENSION
                /\ merged[k].end_sec - cfg.END_BUFFER
                       - (nominal[k].end_sec + cfg.MIN_EXTENSION) >= 0

\* C22: if the window of the forward search holds a run of min_silence_frames
\* consecutive frames below SILENCE_THRESHOLD, a run that ends at the last
\* frame of the window included, find_silence_after returns the value of the
\* first such run and not the fallback.
C22_FirstSilenceRunIsFound ==
    AdjustReturned =>
        \A k \in 1..Len(merged) :
            EndScanned(k) =>
                \A i \in DOMAIN EndFrames(k) :
                    (QuietRunAt(k, i) /\ \A j \in 0..(i - 1) : ~QuietRunAt(k, j)) =>
                        /\ EndSearch(k).path = "found"
                        /\ merged[k].end_sec =
                             LET result == EndWindowStart(k) + i * hop_length + cfg.END_BUFFER
                             IN IF script = "srs" THEN result
                                ELSE Max({result, nominal[k].end_sec + cfg.MIN_EXTENSION})

\* C23: in every endpoint search the frame energies are divided by the
\* largest frame energy of the whole audio before they are compared with
\* SILENCE_THRESHOLD, never by the largest of the search window.
C23_NormalizedByGlobalMaximum ==
    AdjustReturned =>
        \A k \in 1..Len(merged) :
            EndScanned(k) => EndDivisor(k) = rms_max_of_audio(audio)

\* C24: when find_silence_before finds no silence-to-speech transition (the
\* window empty, shorter than the minimum silence, without energy, or scanned
\* in vain) the refined start is max(previous end + 0.05, nominal start -
\* 0.15), the floor being 0 for the first segment.
C24_StartFallbackBacksOff ==
    (AdjustReturned /\ script # "srs") =>
        \A k \in 1..Len(merged) :
            LET prev_end_time == IF k > 1 THEN merged[k - 1].end_sec ELSE None IN
            StartSearch(k, prev_end_time).path # "found" =>
                merged[k].start_sec =
                    Max({IF k > 1 THEN prev_end_time + 5 ELSE 0,
                         nominal[k].start_sec - 15})

\* C28: after adjust_endpoints_with_audio every segment has its refined start
\* before its refined end, and its refined end not before its transcript end.
C28_ClipsAreNotEmptyNorCutShort ==
    AdjustReturned =>
        \A k \in 1..Len(merged) :
            /\ merged[k].start_sec < merged[k].end_sec
            /\ merged[k].end_sec >= nominal[k].end_sec

----------------------------------------------------------------------------
(* Saved translations during a resumed run *)

\* the file holds a record with a translation for the text t
SavedIn(file, t) ==
    \E j \in 1..Len(file.items) : file.items[j].text = t /\ truthy(file.items[j])

\* C29: during a resumed annotation run a translation that was in the output
\* file when the run started, for a text still in segments.json, is in the
\* output file at every later point of the run: an interruption at any moment,
\* right after a checkpoint included, never makes the next run ask for it again.
C29_SavedTranslationStaysSaved ==
    (tool = "translations" /\ apc \in {"loop", "done", "crashed"}) =>
        \A k \in 1..Len(segments_json) :
            SavedIn(data_before, segments_json[k].text)
                => SavedIn(data_json, segments_json[k].text)

----------------------------------------------------------------------------
(* Properties of parse_transcript, split_transcript and seconds_to_ffmpeg_time *)

\* C25: every parse_transcript removes an optional "index->" prefix from each
\* line, timestamp lines and text lines alike, before it matches: a transcript
\* whose lines carry the prefix parses to the entries of the transcript
\* without it.
C25_PrefixIsStripped ==
    tpc # "start" => entries = parse_transcript(parser, plain_lines(source))

\* the entries a transcript stands for: per block that passes the filter of
\* the parser its times, hours included, and its text lines joined
RECURSIVE BlockEntries(_, _)
BlockEntries(p, src) ==
    IF src = <<>> THEN <<>>
    ELSE (IF is_appended(p, src[1].start_sec, join_lines(src[1].text_lines))
          THEN <<[start_sec |-> src[1].start_sec, end_sec |-> src[1].end_sec,
                  text |-> join_lines(src[1].text_lines)]>>
          ELSE <<>>)
         \o BlockEntries(p, Tail(src))

\* C26: every parse_transcript takes a line MM:SS-MM:SS or H:MM:SS-H:MM:SS as
\* a timestamp line: it opens an entry, with start and end in seconds, hours
\* included, and closes the text before it; it is neither added to the text
\* of the entry before nor skipped.
C26_TimestampLineOpensEntry ==
    (tpc # "start" /\ ~numbered) => entries = BlockEntries(parser, source)

\* C27: for every time t >= 0 seconds_to_ffmpeg_time returns HH:MM:SS.ff, the
\* hours always there, two digits after the point, the minutes in 00..59, the
\* seconds field below 60.00, and the string denotes t to the nearest
\* hundredth.
C27_FfmpegTimeIsWellFormed ==
    ffmpeg_time # NoStamp =>
        LET parts == split(ffmpeg_time, ":") IN
        /\ Len(parts) = 3
        /\ AllDigits(parts[1]) /\ Len(parts[1]) >= 2
        /\ AllDigits(parts[2]) /\ Len(parts[2]) = 2 /\ int_of(parts[2]) <= 59
        /\ LET field == split(parts[3], ".") IN
           /\ Len(field) = 2
           /\ AllDigits(field[1]) /\ Len(field[1]) = 2 /\ int_of(field[1]) <= 59
           /\ AllDigits(field[2]) /\ Len(field[2]) = 2
           /\ 360000 * int_of(parts[1]) + 6000 * int_of(parts[2])
                  + 100 * int_of(field[1]) + int_of(field[2])
                = (seconds + 5) \div 10

\* the chapter whose interval [start, start of the next chapter) holds the time t
Home(t) ==
    CHOOSE c \in 1..Len(CHAPTERS) :
        /\ chapter_times[c] <= t
        /\ \A d \in 1..Len(CHAPTERS) : chapter_times[d] <= t => d <= c

\* chapter file c read again by parse_transcript, its times counted from the
\* start of the transcript
Reparsed(c) ==
    LET es == parse_transcript("nier", chapters[c]) IN
    [k \in 1..Len(es) |->
        [es[k] EXCEPT !.start_sec = @ + chapter_times[c],
                      !.end_sec = @ + chapter_times[c]]]

====
